---- MODULE Spec2Model ----
(***************************************************************************)
(* Model of WorkoutPlanner (workout_planner.py): the plan assembler        *)
(* generate_workout_plan, the search collaborator _search_tavily_video     *)
(* with its direct-request fallback, and the parser                        *)
(* _parse_workout_response.                                                *)
(*                                                                         *)
(* Text is a sequence of tokens.  A token is one character (" ", "-",      *)
(* "|", ":", a letter, a digit) or one word that the code looks for as a   *)
(* substring ("sets", "warm-up", "youtube.com", ...).  The string methods  *)
(* the code calls (split, strip, lstrip, lower, in, startswith, isdigit,   *)
(* int) are operators on such sequences.                                   *)
(***************************************************************************)
EXTENDS Integers, Sequences, FiniteSets, TLC

VARIABLES
    mode,             \* which entry point this behaviour exercises
    content,          \* _parse_workout_response: the argument
    parsed,           \* _parse_workout_response: the outcome (None before the call)
    profile,          \* generate_workout_plan: the UserProfileRequest
    tavily_api_key,   \* self.tavily_api_key
    pc,               \* position of generate_workout_plan / of the search
    day_num,          \* loop variable of generate_workout_plan (0-based)
    workout_content,  \* _generate_daily_workout: text of the current day
    day_videos,       \* _generate_daily_workout: video urls found so far today
    daily_workouts,   \* generate_workout_plan: the list being built
    response,         \* the WorkoutResponse returned (None while running)
    ai_calls,         \* number of chat.completions.create calls issued
    search_calls,     \* number of _search_tavily_video invocations
    env,              \* search: the behaviour of the two network collaborators
    found,            \* search: outcome of _search_tavily_video (None before)
    workout_structure,\* outcome of _create_workout_structure (None before)
    calls,            \* the collaborator calls awaited so far, in order
    tasks,            \* concurrent requests: the locals of each coroutine
    base_structures   \* the dict the latest _create_workout_structure call built

vars == << mode, content, parsed, profile, tavily_api_key, pc, day_num,
           workout_content, day_videos, daily_workouts, response, ai_calls,
           search_calls, env, found, workout_structure, calls, tasks,
           base_structures >>

\* Python's None where a string is expected; no text holds this token.
None == << "<None>" >>

\* F(x) with the argument evaluated first and once: the statements of a method
\* run one after the other, each on the value the previous one left.
Call(F(_), x) == CHOOSE y \in { F(v) : v \in { x } } : TRUE

(***************************************************************************)
(* String methods                                                          *)
(***************************************************************************)

\* Characters str.strip() removes.
Whitespace == { " " }

\* str.lower() on one token.
LowerTok(c) ==
    CASE c = "A" -> "a"
      [] c = "Sets" -> "sets"
      [] c = "Reps" -> "reps"
      [] c = "Rest" -> "rest"
      [] c = "Warm-up" -> "warm-up"
      [] c = "Warmup" -> "warmup"
      [] c = "Main Routine" -> "main routine"
      [] c = "Main Workout" -> "main workout"
      [] c = "Cool-down" -> "cool-down"
      [] c = "Cooldown" -> "cooldown"
      [] OTHER -> c

\* str.lower()
Lower(s) == [i \in 1..Len(s) |-> LowerTok(s[i])]

\* str.lstrip(chars)
RECURSIVE LStripChars(_, _)
LStripChars(s, chars) ==
    IF s # << >> /\ Head(s) \in chars THEN LStripChars(Tail(s), chars) ELSE s

\* str.rstrip(chars)
RECURSIVE RStripChars(_, _)
RStripChars(s, chars) ==
    IF s # << >> /\ s[Len(s)] \in chars
    THEN RStripChars(SubSeq(s, 1, Len(s) - 1), chars)
    ELSE s

\* str.strip()
Strip(s) == RStripChars(LStripChars(s, Whitespace), Whitespace)

\* str.split(sep) for a one-character separator: n separators give n+1
\* pieces, the k-th between the (k-1)-th and the k-th separator.
Split(s, sep) ==
    LET at == { i \in 1..Len(s) : s[i] = sep }
        Pos(k) == IF k = 0 THEN 0
                  ELSE IF k > Cardinality(at) THEN Len(s) + 1
                  ELSE CHOOSE i \in at : Cardinality({ j \in at : j < i }) = k - 1
    IN  [k \in 1..(Cardinality(at) + 1) |-> SubSeq(s, Pos(k - 1) + 1, Pos(k) - 1)]

\* sub in s
Contains(s, sub) ==
    \E i \in 0..(Len(s) - Len(sub)) : SubSeq(s, i + 1, i + Len(sub)) = sub

\* str.isdigit: true of the decimal digits and of other digit characters
\* such as the superscript two.
IsDigit(c) == c \in { "0", "3", "4", "sup2" }

\* The characters int() accepts in a literal of digits.
IsDecimal(c) == c \in { "0", "3", "4" }

DigitValue(c) == CASE c = "0" -> 0 [] c = "3" -> 3 [] c = "4" -> 4 [] OTHER -> 0

\* int(s) raises ValueError on the empty string and on any character that is
\* not a decimal digit.
IntRaises(s) == s = << >> \/ \E i \in 1..Len(s) : ~IsDecimal(s[i])

\* The value of the first n digits of s.
RECURSIVE IntPrefix(_, _)
IntPrefix(s, n) ==
    IF n = 0 THEN 0 ELSE 10 * IntPrefix(s, n - 1) + DigitValue(s[n])

\* int(s) when it does not raise.
IntValue(s) == IntPrefix(s, Len(s))

(***************************************************************************)
(* _parse_workout_response                                                 *)
(***************************************************************************)

Sections == << "warm_up", "main_routine", "cool_down" >>

\* current_section = None
NoSection == "None"

Exercise(name, sets, reps, rest, instructions) ==
    [ name |-> name, sets |-> sets, reps |-> reps, rest |-> rest,
      instructions |-> instructions ]

\* section.replace('_', ' ').title()
SectionTitle(section) ==
    CASE section = "warm_up" -> "Warm Up"
      [] section = "main_routine" -> "Main Routine"
      [] section = "cool_down" -> "Cool Down"

\* The exercise that fills an empty section.
Placeholder(section) ==
    Exercise(<< "Basic " \o SectionTitle(section) >>, 1, << "As needed" >>,
             << "None" >>, << "Perform at a comfortable pace" >>)

\* The dictionary of default values of a main-routine line.
DefaultExerciseData ==
    [ sets |-> << "3" >>, reps |-> << "10-12" >>, rest |-> << "60s" >>,
      instructions |-> << >> ]

\* Mutant of SetsOf: no default when the field holds no digit.
SetsNoDefault(part) == SelectSeq(part, IsDigit)

\* The value stored for a field that contains "sets:": its digit characters,
\* "3" when it has none.
SetsOf(part) ==
    LET sets_str == SelectSeq(part, IsDigit)
    IN  IF sets_str # << >> THEN sets_str ELSE << "3" >>

\* One iteration of `for part in parts[1:]`.
ScanPart(data, raw) ==
    LET part == Strip(Lower(raw))
        pieces == Split(part, ":")
    IN  IF Contains(part, << "sets", ":" >>)
        THEN [data EXCEPT !.sets = SetsOf(part)]
        ELSE IF Contains(part, << "reps", ":" >>)
        THEN [data EXCEPT !.reps = Strip(pieces[Len(pieces)])]
        ELSE IF Contains(part, << "rest", ":" >>)
        THEN [data EXCEPT !.rest = Strip(pieces[Len(pieces)])]
        ELSE [data EXCEPT !.instructions = part]

\* The loop `for part in parts[1:]`, from index i on.
RECURSIVE ScanParts(_, _, _)
ScanParts(parts, i, data) ==
    IF i > Len(parts) THEN data
    ELSE ScanParts(parts, i + 1, ScanPart(data, parts[i]))

\* [p.strip() for p in line.lstrip('- \u2022*').split('|')]; the token "bullet"
\* is the character U+2022.
PartsOf(line) ==
    LET raw == Split(LStripChars(line, { "-", " ", "bullet", "*" }), "|")
    IN  [i \in 1..Len(raw) |-> Strip(raw[i])]

\* The body of the inner try for one bullet line: either an exception
\* (raised) or the Exercise built.
ParseExercise(line, current_section) ==
    LET parts == PartsOf(line)
        name == IF parts # << >> THEN Strip(parts[1]) ELSE << "Unnamed Exercise" >>
    IN  IF current_section = "main_routine"
        THEN LET exercise_data == ScanParts(parts, 2, DefaultExerciseData)
             IN  IF IntRaises(exercise_data.sets)
                 THEN [ raised |-> TRUE, exercise |-> Placeholder(current_section) ]
                 ELSE [ raised |-> FALSE,
                        exercise |-> Exercise(name, IntValue(exercise_data.sets),
                                              exercise_data.reps, exercise_data.rest,
                                              exercise_data.instructions) ]
        ELSE LET instructions == IF Len(parts) > 1 THEN Strip(parts[2])
                                 ELSE << "Perform at a comfortable pace" >>
             IN  [ raised |-> FALSE,
                   exercise |-> Exercise(name, 1, << "As needed" >>, << "None" >>,
                                         instructions) ]

\* Mutant of StartsWithBullet: only the dash is a bullet.
StartsWithDash(line) ==
    LET l == LStripChars(line, Whitespace)
    IN  l # << >> /\ Head(l) = "-"

\* line.lstrip().startswith(('-', '\u2022', '*'))
StartsWithBullet(line) ==
    LET l == LStripChars(line, Whitespace)
    IN  l # << >> /\ Head(l) \in { "-", "bullet", "*" }

\* Mutant of HeaderOf: the cool-down header is not recognized.
HeaderOfNoCoolDown(line) ==
    LET lower_line == Lower(line)
    IN  IF Contains(lower_line, << "warm-up", ":" >>)
           \/ Contains(lower_line, << "warmup", ":" >>)
        THEN "warm_up"
        ELSE IF Contains(lower_line, << "main routine", ":" >>)
                \/ Contains(lower_line, << "main workout", ":" >>)
        THEN "main_routine"
        ELSE NoSection

\* The section a header line names, NoSection for any other line.
HeaderOf(line) ==
    LET lower_line == Lower(line)
    IN  IF Contains(lower_line, << "warm-up", ":" >>)
           \/ Contains(lower_line, << "warmup", ":" >>)
        THEN "warm_up"
        ELSE IF Contains(lower_line, << "main routine", ":" >>)
                \/ Contains(lower_line, << "main workout", ":" >>)
        THEN "main_routine"
        ELSE IF Contains(lower_line, << "cool-down", ":" >>)
                \/ Contains(lower_line, << "cooldown", ":" >>)
        THEN "cool_down"
        ELSE NoSection

\* Mutant of ParseStart: the cursor starts at the first section.
ParseStartInWarmUp ==
    [ current_section |-> "warm_up",
      segments |-> [ warm_up |-> << >>, main_routine |-> << >>, cool_down |-> << >> ],
      log |-> << >> ]

\* State of the loop over the lines: the cursor, the segments, and a log
\* with one entry per line (what the iteration did with it).
ParseStart ==
    [ current_section |-> NoSection,
      segments |-> [ warm_up |-> << >>, main_routine |-> << >>, cool_down |-> << >> ],
      log |-> << >> ]

LogEntry(line, section, kind, exercise) ==
    [ line |-> line, section |-> section, kind |-> kind, exercise |-> exercise ]

\* One iteration of `for line in lines`.
ParseLine(st, line) ==
    IF HeaderOf(line) # NoSection
    THEN [st EXCEPT !.current_section = HeaderOf(line),
                    !.log = Append(@, LogEntry(line, st.current_section, "header",
                                               Placeholder("warm_up")))]
    ELSE IF ~StartsWithBullet(line)
    THEN [st EXCEPT !.log = Append(@, LogEntry(line, st.current_section, "not_bullet",
                                               Placeholder("warm_up")))]
    ELSE IF st.current_section = NoSection
    THEN [st EXCEPT !.log = Append(@, LogEntry(line, st.current_section, "no_section",
                                               Placeholder("warm_up")))]
    ELSE LET r == ParseExercise(line, st.current_section)
         IN  IF r.raised
             THEN [st EXCEPT !.log = Append(@, LogEntry(line, st.current_section,
                                                        "dropped", r.exercise))]
             ELSE [st EXCEPT !.segments[st.current_section] = Append(@, r.exercise),
                             !.log = Append(@, LogEntry(line, st.current_section,
                                                        "exercise", r.exercise))]

\* The loop `for line in lines` over the first n lines.
RECURSIVE ParseLines(_, _)
ParseLines(lines, n) ==
    IF n = 0 THEN ParseStart
    ELSE LET Iteration(st) == ParseLine(st, lines[n])
         IN  Call(Iteration, ParseLines(lines, n - 1))

\* [line.strip() for line in content.split('\n') if line.strip()]
LinesOf(text) ==
    LET raw == Split(text, "\n")
        stripped == [i \in 1..Len(raw) |-> Strip(raw[i])]
        NonEmpty(l) == l # << >>
    IN  SelectSeq(stripped, NonEmpty)

\* Mutant of FillEmpty: empty sections stay empty.
FillNothing(segments) == segments

\* "Ensure each section has at least one exercise".
FillEmpty(segments) ==
    [ s \in DOMAIN segments |->
        IF segments[s] = << >> THEN << Placeholder(s) >> ELSE segments[s] ]

\* The dictionary the outer except returns.
AllPlaceholders ==
    [ warm_up |-> << Placeholder("warm_up") >>,
      main_routine |-> << Placeholder("main_routine") >>,
      cool_down |-> << Placeholder("cool_down") >> ]

\* The statements inside the outer try.  text = None makes text.split raise
\* AttributeError; an exception of one bullet line never gets this far.
ParseBody(text) ==
    IF text = None
    THEN [ raised |-> TRUE, segments |-> ParseStart.segments, log |-> << >> ]
    ELSE LET Finish(st) == [ raised |-> FALSE, segments |-> FillEmpty(st.segments),
                             log |-> st.log ]
             Run(lines) == Call(Finish, ParseLines(lines, Len(lines)))
         IN  Call(Run, LinesOf(text))

\* Mutant of ParseWorkoutResponse: no outer except clause.
ParseWithoutCatch(text) == ParseBody(text)

\* _parse_workout_response(text): raised tells whether an exception leaves the
\* method, segments is the dictionary returned, log the per-line record.
ParseWorkoutResponse(text) ==
    LET body == ParseBody(text)
    IN  IF body.raised
        THEN [ raised |-> FALSE, segments |-> AllPlaceholders, log |-> body.log ]
        ELSE body

(***************************************************************************)
(* _search_tavily_video and _direct_tavily_api_call                        *)
(*                                                                         *)
(* The two network collaborators are scripted by env:                      *)
(*   env.primary  what client.search does: raises, or returns results;     *)
(*   env.script   what the n-th client.post does: raises, or returns a     *)
(*                response with a status code and results.                 *)
(* A result is its url.                                                    *)
(***************************************************************************)

\* The prefix the third attempt strips.
TvlyPrefix == << "t", "v", "l", "y", "-" >>

\* str.startswith(prefix)
StartsWith(s, prefix) ==
    Len(s) >= Len(prefix) /\ SubSeq(s, 1, Len(prefix)) = prefix

\* not self.tavily_api_key or len(self.tavily_api_key) < 10
ApiKeyInvalid(key) == key = << >> \/ Len(key) < 10

\* "youtube.com" in r.get("url", "")
IsYoutube(url) == Contains(url, << "youtube.com" >>)

\* videos = [r for r in results if "youtube.com" in url]; videos[0]["url"],
\* None when the list is empty.
FirstVideo(results) ==
    LET videos == SelectSeq(results, IsYoutube)
    IN  IF videos # << >> THEN videos[1] ELSE None

\* One request of the fallback: the Authorization header, the X-Api-Key
\* header and the api_key entry of the payload (<< >> when absent).
Request(authorization, x_api_key, api_key) ==
    [ authorization |-> authorization, x_api_key |-> x_api_key, api_key |-> api_key ]

BearerRequest(key) == Request(<< "Bearer", " " >> \o key, << >>, << >>)

ApiKeyParamRequest(key) == Request(<< >>, << >>, key)

StrippedBearerRequest(key) ==
    Request(<< "Bearer", " " >> \o SubSeq(key, Len(TvlyPrefix) + 1, Len(key)), << >>, key)

XApiKeyRequest(key) == Request(<< >>, key, key)

\* A response of the search endpoint, and a client.post that raises.
Answer(status, results) ==
    [ raises |-> status = 0, status_code |-> status, results |-> results ]

\* await client.post(...): the request is issued and answered by the next
\* entry of the script, which is a response or an exception.
Post(st, request, script) ==
    LET answer == script[Len(st.requests) + 1]
    IN  [ requests |-> Append(st.requests, request),
          raised |-> answer.raises,
          response |-> answer ]

\* Mutant of Unauthorized: every status other than 200 tries the next scheme.
RetryOnAnyFailure(st) == ~st.raised /\ st.response.status_code # 200

\* response.status_code == 401 of the last response received.
Unauthorized(st) == ~st.raised /\ st.response.status_code = 401

\* What the final response gives: the first matching url on status 200.
ResultOf(st) ==
    IF st.response.status_code = 200 THEN FirstVideo(st.response.results) ELSE None

\* No request issued yet.
NoRequests == [ requests |-> << >>, raised |-> FALSE, response |-> Answer(0, << >>) ]

\* The statements inside the try of _direct_tavily_api_call: the four
\* attempts, each made only if the response before it was 401, then the
\* reading of the last response.
DirectBody(key, script) ==
    IF ApiKeyInvalid(key)
    THEN [ raised |-> FALSE, result |-> None, requests |-> << >> ]
    ELSE LET First == Post(NoRequests, BearerRequest(key), script)
             Second(st) == IF Unauthorized(st)
                           THEN Post(st, ApiKeyParamRequest(key), script) ELSE st
             Third(st) == IF Unauthorized(st) /\ StartsWith(key, TvlyPrefix)
                          THEN Post(st, StrippedBearerRequest(key), script) ELSE st
             Fourth(st) == IF Unauthorized(st)
                           THEN Post(st, XApiKeyRequest(key), script) ELSE st
             Outcome(st) == [ raised |-> st.raised,
                              result |-> IF st.raised THEN None ELSE ResultOf(st),
                              requests |-> st.requests ]
         IN  Call(Outcome, Call(Fourth, Call(Third, Call(Second, First))))

\* Mutant of ReturnNoneOnException: no except clause, the exception goes on.
Reraise(body) == body

\* `except Exception: return None` around the outcome of a try body.
ReturnNoneOnException(body) ==
    IF body.raised THEN [body EXCEPT !.raised = FALSE, !.result = None] ELSE body

\* _direct_tavily_api_call(query): the except clause returns None.
DirectTavilyApiCall(key, script) == Call(ReturnNoneOnException, DirectBody(key, script))

\* Mutant of SearchAfterKeyCheck: the outcome of the client library is final
\* unless it raises.
SearchPrimaryOnly(key, e) ==
    IF ~e.primary.raises
    THEN [ raised |-> FALSE, result |-> FirstVideo(e.primary.results),
           client_calls |-> 1, requests |-> << >> ]
    ELSE ("client_calls" :> 1) @@ DirectTavilyApiCall(key, e.script)

\* The statements of _search_tavily_video after the key check: the client
\* library first; its match is returned, anything else (an exception, no
\* result, no matching result) falls through to the direct request.
SearchAfterKeyCheck(key, e) ==
    IF ~e.primary.raises /\ FirstVideo(e.primary.results) # None
    THEN [ raised |-> FALSE, result |-> FirstVideo(e.primary.results),
           client_calls |-> 1, requests |-> << >> ]
    ELSE ("client_calls" :> 1) @@ DirectTavilyApiCall(key, e.script)

\* _search_tavily_video(query): result is the url or None, client_calls the
\* number of client.search calls, requests the direct requests issued.
SearchTavilyVideo(key, e) ==
    IF ApiKeyInvalid(key)
    THEN [ raised |-> FALSE, result |-> None, client_calls |-> 0, requests |-> << >> ]
    ELSE Call(ReturnNoneOnException, SearchAfterKeyCheck(key, e))

(***************************************************************************)
(* _create_workout_structure                                               *)
(***************************************************************************)

BaseStructures ==
    [ build_muscle |->
        [ splits |-> << "Upper Body Push", "Lower Body", "Upper Body Pull" >>,
          intensity |-> "High", rest |-> "60-90s" ],
      lose_weight |->
        [ splits |-> << "HIIT Cardio", "Full Body Strength", "Metabolic Conditioning" >>,
          intensity |-> "Moderate-High", rest |-> "30-45s" ],
      eat_healthier |->
        [ splits |-> << "Full Body", "Mobility & Flexibility", "Light Cardio" >>,
          intensity |-> "Moderate", rest |-> "45-60s" ] ]

\* The text of the TypeError of an item assignment on None (lines 87, 91).
TypeErrorAssign == << "'NoneType' object does not support item assignment" >>

\* The text of the TypeError of subscripting None (line 46).
TypeErrorSubscript == << "'NoneType' object is not subscriptable" >>

\* Mutant of CreateWorkoutStructure: the nutrition note is attached for the
\* vegan eating style only.
CreateWorkoutStructureVeganOnly(p) ==
    LET is_none == p.primary_goal \notin DOMAIN BaseStructures
        vegan == p.eating_style = "vegan"
        no_caffeine == p.caffeine_consumption = "none"
        base == IF is_none THEN [ splits |-> << >> ] ELSE BaseStructures[p.primary_goal]
        with_note == IF vegan
                     THEN ("nutrition_note" :> "Include pre-workout protein sources") @@ base
                     ELSE base
        with_warm_up == IF no_caffeine
                        THEN ("warm_up_duration" :> "15-20 minutes") @@ with_note
                        ELSE with_note
    IN  IF is_none /\ (vegan \/ no_caffeine)
        THEN [ raised |-> TRUE, error |-> TypeErrorAssign, is_none |-> TRUE,
               structure |-> base ]
        ELSE [ raised |-> FALSE, error |-> None, is_none |-> is_none,
               structure |-> with_warm_up ]

\* Mutant of CreateWorkoutStructure: an unknown goal gets the first structure.
CreateWorkoutStructureDefault(p) ==
    [ raised |-> FALSE, error |-> None, is_none |-> FALSE,
      structure |-> IF p.primary_goal \in DOMAIN BaseStructures
                    THEN BaseStructures[p.primary_goal]
                    ELSE BaseStructures.build_muscle ]

\* base_structures.get(profile.primary_goal): is_none when the goal is no key.
\* The two adjustments assign into the structure, which raises when it is None.
CreateWorkoutStructure(p) ==
    LET is_none == p.primary_goal \notin DOMAIN BaseStructures
        vegan == p.eating_style \in { "vegan", "vegetarian" }
        no_caffeine == p.caffeine_consumption = "none"
        base == IF is_none THEN [ splits |-> << >> ] ELSE BaseStructures[p.primary_goal]
        with_note == IF vegan
                     THEN ("nutrition_note" :> "Include pre-workout protein sources") @@ base
                     ELSE base
        with_warm_up == IF no_caffeine
                        THEN ("warm_up_duration" :> "15-20 minutes") @@ with_note
                        ELSE with_note
    IN  IF is_none /\ (vegan \/ no_caffeine)
        THEN [ raised |-> TRUE, error |-> TypeErrorAssign, is_none |-> TRUE,
               structure |-> base ]
        ELSE [ raised |-> FALSE, error |-> None, is_none |-> is_none,
               structure |-> with_warm_up ]

\* Mutant of TableAtCall: the table is built once and every call adjusts the
\* one the call before it left.
TableKeptAcrossCalls(left) == left

\* base_structures = { ... } (line 65): the name is bound to a dict built
\* from the literal on each call, whatever dict an earlier call left behind.
TableAtCall(left) == BaseStructures

\* Lines 83-93 on the dict objects: structure is the entry of `table` itself
\* (get returns a reference), so each item assignment also changes the
\* table.  outcome is what the call returns or raises, table the dict the
\* call leaves behind.
CreateWorkoutStructureIn(table, p) ==
    LET is_none == p.primary_goal \notin DOMAIN table
        vegan == p.eating_style \in { "vegan", "vegetarian" }
        no_caffeine == p.caffeine_consumption = "none"
        entry == IF is_none THEN [ splits |-> << >> ] ELSE table[p.primary_goal]
        with_note == IF vegan
                     THEN ("nutrition_note" :> "Include pre-workout protein sources") @@ entry
                     ELSE entry
        with_warm_up == IF no_caffeine
                        THEN ("warm_up_duration" :> "15-20 minutes") @@ with_note
                        ELSE with_note
    IN  IF is_none /\ (vegan \/ no_caffeine)
        THEN [ outcome |-> [ raised |-> TRUE, error |-> TypeErrorAssign,
                             is_none |-> TRUE, structure |-> entry ],
               table |-> table ]
        ELSE [ outcome |-> [ raised |-> FALSE, error |-> None, is_none |-> is_none,
                             structure |-> with_warm_up ],
               table |-> IF is_none THEN table
                         ELSE [table EXCEPT ![p.primary_goal] = with_warm_up] ]

(***************************************************************************)
(* generate_workout_plan and _generate_daily_workout                       *)
(***************************************************************************)

\* range(3)
NumDays == 3

\* Mutant of Focus: the index is taken from the 1-based day.
FocusOfDayNumber(structure, d) ==
    structure.splits[((d + 1) % Len(structure.splits)) + 1]

\* workout_structure["splits"][day_num % len(workout_structure["splits"])]
Focus(structure, d) == structure.splits[(d % Len(structure.splits)) + 1]

WorkoutSegment(motto, exercises, duration, video_url) ==
    [ motto |-> motto, exercises |-> exercises, duration |-> duration,
      video_url |-> video_url ]

\* The DailyWorkout built from the parsed text and the three video urls.
DailyWorkout(day, focus, workout_data, vids) ==
    [ day |-> "Day " \o ToString(day),
      focus |-> focus,
      warm_up |-> WorkoutSegment("Keep moving-you've got this.", workout_data.warm_up,
                                 "10-15 minutes", vids[1]),
      main_routine |-> WorkoutSegment("You're doing awesome-keep the energy up.",
                                      workout_data.main_routine,
                                      "30-45 minutes", vids[2]),
      cool_down |-> WorkoutSegment("Breathe in peace-breathe out strength.",
                                   workout_data.cool_down,
                                   "10-15 minutes", vids[3]) ]

WorkoutResponse(success, workout_plan, error) ==
    [ success |-> success, workout_plan |-> workout_plan, error |-> error ]

\* The value of `response` while the call has not returned.
NoResponse == WorkoutResponse(FALSE, << >>, None)

\* Mutant of Fail: the exception leaves generate_workout_plan.
Propagate(error) ==
    /\ response' = NoResponse
    /\ pc' = "raised"

\* Mutant of Fail: the failure envelope carries the days generated so far.
FailPartial(error) ==
    /\ response' = WorkoutResponse(FALSE, daily_workouts, error)
    /\ pc' = "done"

\* The except clause of generate_workout_plan: the failure envelope.
Fail(error) ==
    /\ response' = WorkoutResponse(FALSE, << >>, error)
    /\ pc' = "done"

(***************************************************************************)
(* Inputs                                                                  *)
(***************************************************************************)

\* Longest credential tried.
MaxKeyLen == 11

\* Most lines of a text handed to the parser.
MaxLines == 3

\* Most bullet lines of one section of a text in the format of the prompt.
MaxBullets == 2

\* The number of client.post calls _direct_tavily_api_call can make.
MaxAttempts == 4

\* A credential of n characters, with or without the "tvly-" prefix.
Key(n, prefixed) ==
    IF prefixed
    THEN TvlyPrefix \o [i \in 1..(n - Len(TvlyPrefix)) |-> "x"]
    ELSE [i \in 1..n |-> "x"]

SearchKeys ==
    { Key(n, FALSE) : n \in {0} \cup (9..MaxKeyLen) }
        \cup { Key(n, TRUE) : n \in 9..MaxKeyLen }

PlanKeys == { Key(9, FALSE), Key(MaxKeyLen, TRUE) }

Yt1 == << "https://", "youtube.com", "/watch?v=1" >>
Yt2 == << "https://", "youtube.com", "/watch?v=2" >>
Other == << "https://", "vimeo.com", "/1" >>

\* The "results" lists a search returns.
SampleResults == { << >>, << Other >>, << Yt1 >>, << Other, Yt2 >>, << Yt1, Yt2 >> }

\* The urls of the n-th response of a script carry the mark of that response.
Mark(results, n) ==
    [i \in 1..Len(results) |-> Append(results[i], "#response" \o ToString(n))]

\* Status 0 stands for a request that raises.
StatusKinds == { 0, 200, 401, 500 }

Primaries ==
    { [ raises |-> TRUE, results |-> << >> ] }
        \cup { [ raises |-> FALSE, results |-> r ] : r \in SampleResults }

SearchEnvs ==
    { [ primary |-> p,
        script |-> [n \in 1..MaxAttempts |-> Answer(st[n], Mark(body, n))] ] :
        p \in Primaries, st \in [1..MaxAttempts -> StatusKinds], body \in SampleResults }

\* The collaborators' behaviours tried for each search of a plan request.
PlanEnvs ==
    { [ primary |-> [ raises |-> FALSE, results |-> << Other, Yt1 >> ],
        script |-> [n \in 1..MaxAttempts |-> Answer(200, << Yt1 >>)] ],
      [ primary |-> [ raises |-> FALSE, results |-> << Other >> ],
        script |-> [n \in 1..MaxAttempts |->
                       Answer(IF n < 3 THEN 401 ELSE 200, << Yt1 >>)] ],
      [ primary |-> [ raises |-> TRUE, results |-> << >> ],
        script |-> [n \in 1..MaxAttempts |->
                       Answer(IF n < 2 THEN 401 ELSE 0, << Yt1 >>)] ],
      [ primary |-> [ raises |-> TRUE, results |-> << >> ],
        script |-> [n \in 1..MaxAttempts |->
                       Answer(IF n < 2 THEN 401 ELSE 500, << Yt1 >>)] ] }

NoEnv == [ primary |-> [ raises |-> TRUE, results |-> << >> ],
           script |-> [n \in 1..MaxAttempts |-> Answer(0, << >>)] ]

NotFound == [ raised |-> FALSE, result |-> None, client_calls |-> 0, requests |-> << >> ]

\* "- " followed by the fields joined with " | ".
RECURSIVE JoinWith(_, _)
JoinWith(seqs, sep) ==
    IF seqs = << >> THEN << >>
    ELSE IF Len(seqs) = 1 THEN seqs[1]
    ELSE seqs[1] \o sep \o JoinWith(Tail(seqs), sep)

Bullet(fields) == << "-", " " >> \o JoinWith(fields, << " ", "|", " " >>)

SetsField(value) == << "Sets", ":", " " >> \o value

LineSet ==
    { << "Warm-up", ":" >>,
      << "Main Routine", ":" >>,
      << "Cool-down", ":" >>,
      << "A", " ", "a" >>,
      << " ", " " >>,
      << "*", " ", "A" >>,
      Bullet(<< << "A" >>, << "A", " ", "a" >> >>),
      Bullet(<< << >>, << "a" >> >>),
      Bullet(<< << "A" >>, SetsField(<< "4" >>), << "Reps", ":", " ", "3" >>,
                << "Rest", ":", " ", "3", "0", "s" >>, << "A", " ", "a" >> >>),
      Bullet(<< << "A" >>, SetsField(<< "a" >>) >>),
      Bullet(<< << "A" >>, SetsField(<< "sup2" >>) >>),
      Bullet(<< << "A" >>, SetsField(<< "0" >>) >>),
      Bullet(<< << "A" >>, << "Rest", ":", " ", "3", ":", "0" >> >>),
      Bullet(<< << "A" >>, << "a" >>, << "Reps", ":", " ", "A" >>, << "A", " ", "a" >> >>),
      Bullet(<< << "A" >>, << "warmup", ":", " ", "a" >> >>) }

\* The texts handed to the parser: None, and up to MaxLines lines of LineSet
\* joined by newlines.
Contents ==
    { None } \cup
    UNION { { JoinWith(ls, << "\n" >>) : ls \in [1..n -> LineSet] } : n \in 0..MaxLines }

\* The header line of a section as the prompt asks for it.
HeaderLine(section) ==
    CASE section = "warm_up" -> << "Warm-up", ":" >>
      [] section = "main_routine" -> << "Main Routine", ":" >>
      [] section = "cool_down" -> << "Cool-down", ":" >>

\* Bullet lines in the format the prompt asks for, per section.
FormatLines(section) ==
    IF section = "main_routine"
    THEN { Bullet(<< << "A" >>, SetsField(<< "4" >>), << "Reps", ":", " ", "3" >>,
                     << "Rest", ":", " ", "3", "0", "s" >>, << "A", " ", "a" >> >>),
           Bullet(<< << "A" >>, << "A", " ", "a" >> >>) }
    ELSE { Bullet(<< << "A" >>, << "A", " ", "a" >> >>),
           << "*", " ", "A" >> }

\* A header followed by 1..MaxBullets lines of its format.
SectionTexts(section) ==
    UNION { { JoinWith(<< HeaderLine(section) >> \o ls, << "\n" >>) :
                ls \in [1..n -> FormatLines(section)] } : n \in 1..MaxBullets }

\* Texts in the format of the prompt: the three sections in order, each with
\* its header and its bullet lines.
SectionedContents ==
    { JoinWith(<< w, m, c >>, << "\n" >>) :
        w \in SectionTexts("warm_up"), m \in SectionTexts("main_routine"),
        c \in SectionTexts("cool_down") }

\* The texts a completion returns in a plan request: None, and a text with a
\* warm-up and a main section, one line of which int() rejects.
PlanContents ==
    { None,
      JoinWith(<< << "Warm-up", ":" >>,
                  Bullet(<< << "A" >>, << "a" >> >>),
                  << "Main Routine", ":" >>,
                  Bullet(<< << "A" >>, SetsField(<< "4" >>) >>),
                  Bullet(<< << "A" >>, SetsField(<< "sup2" >>) >>) >>, << "\n" >>) }

\* What chat.completions.create does: raises, or returns the message content.
OpenAIError == << "OpenAI API error" >>

AiOutcomes ==
    { [ raises |-> TRUE, error |-> OpenAIError, content |-> None ] }
        \cup { [ raises |-> FALSE, error |-> None, content |-> c ] : c \in PlanContents }

\* The requests: every eating style and caffeine value with a goal that is no
\* key of the table, and both branches of each adjustment with the known goals.
Profiles ==
    [ primary_goal : { "unknown_goal" },
      eating_style : { "vegan", "vegetarian", "omnivore" },
      caffeine_consumption : { "none", "daily" } ]
    \cup
    [ primary_goal : { "build_muscle", "lose_weight", "eat_healthier" },
      eating_style : { "vegan", "omnivore" },
      caffeine_consumption : { "none", "daily" } ]

\* workout_structure before _create_workout_structure has run.
NoStructure ==
    [ raised |-> FALSE, error |-> None, is_none |-> TRUE,
      structure |-> [ splits |-> << >> ] ]

NotParsed == [ raised |-> FALSE, segments |-> ParseStart.segments, log |-> << >> ]

\* The requests that run on the one planner at the same time.
Tasks == { "first", "second" }

\* The value of `tasks` where no concurrent requests run.
NoTasks == << >>

\* The completion raises / returns the text c.
CompletionRaises == [ raises |-> TRUE, error |-> OpenAIError, content |-> None ]

CompletionReturns(c) == [ raises |-> FALSE, error |-> None, content |-> c ]

\* The text of PlanContents.
PlanText == CHOOSE c \in PlanContents : c # None

\* The client library finds a video.
EnvClientFinds ==
    [ primary |-> [ raises |-> FALSE, results |-> << Other, Yt1 >> ],
      script |-> [n \in 1..MaxAttempts |-> Answer(200, << Yt2 >>)] ]

\* The client library raises and the third direct request finds a video.
EnvDirectFinds ==
    [ primary |-> [ raises |-> TRUE, results |-> << >> ],
      script |-> [n \in 1..MaxAttempts |->
                     Answer(IF n < 3 THEN 401 ELSE 200, Mark(<< Yt2 >>, n))] ]

\* Neither finds one.
EnvNoVideo ==
    [ primary |-> [ raises |-> FALSE, results |-> << Other >> ],
      script |-> [n \in 1..MaxAttempts |-> Answer(500, << >>)] ]

\* What the collaborators answer to one request: ai[d] is the outcome of the
\* completion of day d, envs[d][k] the behaviour of the search collaborators
\* in the k-th search of day d.  The answers follow the prompt and the query,
\* which name the day, the focus and the segment, not the order in which the
\* calls of different requests arrive.
CollaboratorScript(outcomes, behaviours) ==
    [ ai |-> outcomes,
      envs |-> [d \in 1..NumDays |->
                  [k \in 1..3 |-> behaviours[((d + k) % 3) + 1]]] ]

ConcurrentScripts ==
    { CollaboratorScript(<< CompletionReturns(PlanText), CompletionReturns(PlanText),
                            CompletionReturns(PlanText) >>,
                         << EnvClientFinds, EnvDirectFinds, EnvNoVideo >>),
      CollaboratorScript(<< CompletionReturns(PlanText), CompletionReturns(None),
                            CompletionReturns(PlanText) >>,
                         << EnvDirectFinds, EnvDirectFinds, EnvClientFinds >>),
      CollaboratorScript(<< CompletionReturns(PlanText), CompletionRaises,
                            CompletionReturns(PlanText) >>,
                         << EnvNoVideo, EnvClientFinds, EnvNoVideo >>) }

\* The credential of the planner that serves concurrent requests.
ConcurrentKeys == { Key(MaxKeyLen, TRUE) }

\* The profiles of concurrent requests: one goal with both branches of each
\* adjustment, a second goal, and a goal that is no key of the table with and
\* without an adjustment.
ConcurrentProfiles ==
    [ primary_goal : { "build_muscle" },
      eating_style : { "vegan", "omnivore" },
      caffeine_consumption : { "none", "daily" } ]
    \cup
    [ primary_goal : { "lose_weight", "unknown_goal" },
      eating_style : { "vegetarian" },
      caffeine_consumption : { "daily" } ]
    \cup
    [ primary_goal : { "unknown_goal" },
      eating_style : { "omnivore" },
      caffeine_consumption : { "daily" } ]

(***************************************************************************)
(* Plan requests: Spec                                                     *)
(***************************************************************************)

Init ==
    /\ mode = "plan"
    /\ tasks = NoTasks
    /\ base_structures = BaseStructures
    /\ profile \in Profiles
    /\ tavily_api_key \in PlanKeys
    /\ pc = "start"
    /\ day_num = 0
    /\ workout_content = None
    /\ day_videos = << >>
    /\ daily_workouts = << >>
    /\ response = NoResponse
    /\ ai_calls = 0
    /\ search_calls = 0
    /\ content = None
    /\ parsed = NotParsed
    /\ env = NoEnv
    /\ found = NotFound
    /\ calls = << >>
    /\ workout_structure = NoStructure

\* generate_workout_plan up to the first await: the structure is derived and
\* the focus of the first day is read from it.
Start ==
    /\ mode = "plan" /\ pc = "start"
    /\ \E s \in { CreateWorkoutStructure(profile) } :
          /\ workout_structure' = s
          /\ IF s.raised THEN Fail(s.error)
             ELSE IF s.is_none THEN Fail(TypeErrorSubscript)
             ELSE pc' = "ai" /\ response' = response
    /\ UNCHANGED << tasks, base_structures, mode, content, parsed, profile, tavily_api_key, day_num,
                    workout_content, day_videos, daily_workouts, ai_calls,
                    search_calls, env, found, calls >>

\* await self._get_ai_response(prompt): the exception is logged and raised
\* again, _generate_daily_workout does the same, generate_workout_plan
\* catches it.
GetAiResponse ==
    /\ mode = "plan" /\ pc = "ai"
    /\ ai_calls' = ai_calls + 1
    /\ calls' = Append(calls, [ kind |-> "completion", day |-> day_num + 1,
                                query |-> "" ])
    /\ \E outcome \in AiOutcomes :
          IF outcome.raises
          THEN Fail(outcome.error) /\ workout_content' = workout_content
          ELSE /\ workout_content' = outcome.content
               /\ pc' = "search_warm_up"
               /\ response' = response
    /\ UNCHANGED << tasks, base_structures, mode, content, parsed, profile, tavily_api_key, day_num,
                    day_videos, daily_workouts, search_calls, env, found,
                    workout_structure >>

\* self._parse_workout_response(workout_content), tabulated over the texts a
\* completion returns so that it is evaluated once per text.
ParsedPlanContents == [c \in PlanContents |-> ParseWorkoutResponse(c)]

\* The rest of _generate_daily_workout after the third search, and the end of
\* the loop body: the text is parsed, the DailyWorkout is appended, and the
\* response is returned after the last day.
FinishDay(vids) ==
    \E workout_data \in { ParsedPlanContents[workout_content] } :
        IF workout_data.raised
        THEN Fail(<< "parse error" >>)
             /\ UNCHANGED << daily_workouts, day_num, day_videos >>
        ELSE \E focus \in { Focus(CreateWorkoutStructure(profile).structure, day_num) } :
             \E plan \in { Append(daily_workouts,
                                  DailyWorkout(day_num + 1, focus,
                                               workout_data.segments, vids)) } :
                /\ daily_workouts' = plan
                /\ day_num' = day_num + 1
                /\ day_videos' = << >>
                /\ IF day_num + 1 < NumDays
                   THEN pc' = "ai" /\ response' = response
                   ELSE pc' = "done" /\ response' = WorkoutResponse(TRUE, plan, None)

\* Mutant of QueryOf: the first two queries are exchanged.
QueryOfSwapped(here) ==
    CASE here = "search_warm_up" -> "workout"
      [] here = "search_main" -> "warm up exercises"
      [] here = "search_cool_down" -> "cool down stretches"

\* The query of the search awaited at position `here` (without the focus and
\* the goal, which are the same for the three).
QueryOf(here) ==
    CASE here = "search_warm_up" -> "warm up exercises"
      [] here = "search_main" -> "workout"
      [] here = "search_cool_down" -> "cool down stretches"

\* await self._search_tavily_video(...) at position `here`; env and found keep
\* what the collaborators did in this search and what the search returned.
SearchStep(here, next) ==
    /\ mode = "plan" /\ pc = here
    /\ search_calls' = search_calls + 1
    /\ calls' = Append(calls, [ kind |-> "search", day |-> day_num + 1,
                                query |-> QueryOf(here) ])
    /\ \E e \in PlanEnvs :
          \E r \in { SearchTavilyVideo(tavily_api_key, e) } :
              /\ env' = e
              /\ found' = r
              /\ IF r.raised
                 THEN Fail(<< "search error" >>)
                      /\ UNCHANGED << daily_workouts, day_num, day_videos >>
                 ELSE IF next = "parse"
                 THEN FinishDay(Append(day_videos, r.result))
                 ELSE /\ day_videos' = Append(day_videos, r.result)
                      /\ pc' = next
                      /\ UNCHANGED << daily_workouts, day_num, response >>
    /\ UNCHANGED << tasks, base_structures, mode, content, parsed, profile, tavily_api_key,
                    workout_content, ai_calls, workout_structure >>

SearchWarmUp == SearchStep("search_warm_up", "search_main")

SearchMain == SearchStep("search_main", "search_cool_down")

SearchCoolDown == SearchStep("search_cool_down", "parse")

Next == Start \/ GetAiResponse \/ SearchWarmUp \/ SearchMain \/ SearchCoolDown

Spec == Init /\ [][Next]_vars

\* Every await of the coroutine is resumed: a collaborator returns or raises.
SpecFair == Spec /\ WF_vars(Next)

(***************************************************************************)
(* The parser alone: SpecParse                                             *)
(***************************************************************************)

InitParse ==
    /\ mode = "parse"
    /\ tasks = NoTasks
    /\ base_structures = BaseStructures
    /\ content \in Contents \cup SectionedContents
    /\ parsed = NotParsed
    /\ pc = "start"
    /\ profile = CHOOSE p \in Profiles : TRUE
    /\ tavily_api_key = << >>
    /\ day_num = 0
    /\ workout_content = None
    /\ day_videos = << >>
    /\ daily_workouts = << >>
    /\ response = NoResponse
    /\ ai_calls = 0
    /\ search_calls = 0
    /\ env = NoEnv
    /\ found = NotFound
    /\ calls = << >>
    /\ workout_structure = NoStructure

Parse ==
    /\ mode = "parse" /\ pc = "start"
    /\ parsed' = ParseWorkoutResponse(content)
    /\ pc' = IF parsed'.raised THEN "raised" ELSE "done"
    /\ UNCHANGED << tasks, base_structures, mode, content, profile, tavily_api_key, day_num, workout_content,
                    day_videos, daily_workouts, response, ai_calls, search_calls,
                    env, found, workout_structure, calls >>

NextParse == Parse

SpecParse == InitParse /\ [][NextParse]_vars

(***************************************************************************)
(* The search collaborator alone: SpecSearch                               *)
(***************************************************************************)

InitSearch ==
    /\ mode = "search"
    /\ tasks = NoTasks
    /\ base_structures = BaseStructures
    /\ tavily_api_key \in SearchKeys
    /\ env \in SearchEnvs
    /\ found = NotFound
    /\ calls = << >>
    /\ workout_structure = NoStructure
    /\ pc = "start"
    /\ content = None
    /\ parsed = NotParsed
    /\ profile = CHOOSE p \in Profiles : TRUE
    /\ day_num = 0
    /\ workout_content = None
    /\ day_videos = << >>
    /\ daily_workouts = << >>
    /\ response = NoResponse
    /\ ai_calls = 0
    /\ search_calls = 0

Search ==
    /\ mode = "search" /\ pc = "start"
    /\ found' = SearchTavilyVideo(tavily_api_key, env)
    /\ pc' = IF found'.raised THEN "raised" ELSE "done"
    /\ UNCHANGED << tasks, base_structures, mode, content, parsed, profile, tavily_api_key, day_num,
                    workout_content, day_videos, daily_workouts, response, ai_calls,
                    search_calls, env, workout_structure, calls >>

NextSearch == Search

SpecSearch == InitSearch /\ [][NextSearch]_vars

(***************************************************************************)
(* _create_workout_structure alone: SpecStructure                          *)
(***************************************************************************)

\* The profiles handed to _create_workout_structure: the three fields it
\* reads and two it does not.
StructureProfiles ==
    [ primary_goal : { "build_muscle", "lose_weight", "eat_healthier", "unknown_goal" },
      eating_style : { "vegan", "vegetarian", "omnivore" },
      caffeine_consumption : { "none", "occasionally", "daily" },
      is_meat_eater : BOOLEAN,
      is_lactose_intolerant : BOOLEAN ]

InitStructure ==
    /\ mode = "structure"
    /\ tasks = NoTasks
    /\ base_structures = BaseStructures
    /\ profile \in StructureProfiles
    /\ workout_structure = NoStructure
    /\ pc = "start"
    /\ content = None
    /\ parsed = NotParsed
    /\ tavily_api_key = << >>
    /\ day_num = 0
    /\ workout_content = None
    /\ day_videos = << >>
    /\ daily_workouts = << >>
    /\ response = NoResponse
    /\ ai_calls = 0
    /\ search_calls = 0
    /\ env = NoEnv
    /\ found = NotFound
    /\ calls = << >>

CreateStructure ==
    /\ mode = "structure" /\ pc = "start"
    /\ workout_structure' = CreateWorkoutStructure(profile)
    /\ pc' = IF workout_structure'.raised THEN "raised" ELSE "done"
    /\ UNCHANGED << tasks, base_structures, mode, content, parsed, profile, tavily_api_key, day_num,
                    workout_content, day_videos, daily_workouts, response, ai_calls,
                    search_calls, env, found, calls >>

NextStructure == CreateStructure

SpecStructure == InitStructure /\ [][NextStructure]_vars

(***************************************************************************)
(* Two requests on one planner: SpecConcurrent                             *)
(*                                                                         *)
(* Both generate_workout_plan coroutines run on one event loop: a step is  *)
(* the code of one coroutine from one await to the next, and the loop may  *)
(* resume either coroutine at each step.  tasks[t] holds the locals of     *)
(* coroutine t; tavily_api_key is the attribute of the planner both read.  *)
(***************************************************************************)

\* The locals of a coroutine that has not run yet.
NewTask(p, script) ==
    [ profile |-> p, script |-> script, pc |-> "start", day_num |-> 0,
      workout_content |-> None, day_videos |-> << >>, daily_workouts |-> << >>,
      workout_structure |-> NoStructure, response |-> NoResponse,
      overlapped |-> FALSE ]

InitConcurrent ==
    /\ mode = "concurrent"
    /\ tasks \in [Tasks -> { NewTask(p, script) : p \in ConcurrentProfiles,
                                                  script \in ConcurrentScripts }]
    /\ base_structures = BaseStructures
    /\ tavily_api_key \in ConcurrentKeys
    /\ profile = CHOOSE p \in Profiles : TRUE
    /\ pc = "start"
    /\ day_num = 0
    /\ workout_content = None
    /\ day_videos = << >>
    /\ daily_workouts = << >>
    /\ response = NoResponse
    /\ ai_calls = 0
    /\ search_calls = 0
    /\ content = None
    /\ parsed = NotParsed
    /\ env = NoEnv
    /\ found = NotFound
    /\ calls = << >>
    /\ workout_structure = NoStructure

\* The other request.
Peer(t) == CHOOSE u \in Tasks : u # t

\* The coroutine is suspended at an await.
Suspended(frame) == frame.pc \notin { "start", "done" }

\* The except clause of generate_workout_plan, on the locals of one coroutine.
Failed(frame, error) ==
    [frame EXCEPT !.response = WorkoutResponse(FALSE, << >>, error), !.pc = "done"]

\* Coroutine t has run to its next await or to its return and its locals are
\* `frame`; overlapped records that it ran while the other one was suspended.
Resume(t, frame) ==
    tasks' = [tasks EXCEPT
                ![t] = [frame EXCEPT !.overlapped = @ \/ Suspended(tasks[Peer(t)])]]

\* generate_workout_plan of request t up to its first await.
StartTask(t) ==
    /\ mode = "concurrent" /\ tasks[t].pc = "start"
    /\ \E s \in { CreateWorkoutStructureIn(TableAtCall(base_structures),
                                           tasks[t].profile) } :
       \E frame \in { [tasks[t] EXCEPT !.workout_structure = s.outcome] } :
          /\ base_structures' = s.table
          /\ Resume(t, IF s.outcome.raised THEN Failed(frame, s.outcome.error)
                       ELSE IF s.outcome.is_none THEN Failed(frame, TypeErrorSubscript)
                       ELSE [frame EXCEPT !.pc = "ai"])
    /\ UNCHANGED << mode, content, parsed, profile, tavily_api_key, pc, day_num,
                    workout_content, day_videos, daily_workouts, response, ai_calls,
                    search_calls, env, found, workout_structure, calls >>

\* Request t is resumed from await self._get_ai_response(prompt).
GetAiResponseTask(t) ==
    /\ mode = "concurrent" /\ tasks[t].pc = "ai"
    /\ \E outcome \in { tasks[t].script.ai[tasks[t].day_num + 1] } :
          Resume(t, IF outcome.raises THEN Failed(tasks[t], outcome.error)
                    ELSE [tasks[t] EXCEPT !.workout_content = outcome.content,
                                          !.pc = "search_warm_up"])
    /\ UNCHANGED << base_structures, mode, content, parsed, profile, tavily_api_key,
                    pc, day_num, workout_content, day_videos, daily_workouts,
                    response, ai_calls, search_calls, env, found, workout_structure,
                    calls >>

\* The rest of _generate_daily_workout and of the loop body of request t
\* after its third search: the text is parsed, the DailyWorkout is appended to
\* the list of this coroutine, and the response is returned after the last day.
FinishDayTask(t, vids) ==
    \E workout_data \in { ParsedPlanContents[tasks[t].workout_content] } :
        IF workout_data.raised
        THEN Resume(t, Failed(tasks[t], << "parse error" >>))
        ELSE \E focus \in { Focus(tasks[t].workout_structure.structure,
                                   tasks[t].day_num) } :
             \E plan \in { Append(tasks[t].daily_workouts,
                                  DailyWorkout(tasks[t].day_num + 1, focus,
                                               workout_data.segments, vids)) } :
                Resume(t, [tasks[t] EXCEPT
                             !.daily_workouts = plan,
                             !.day_num = @ + 1,
                             !.day_videos = << >>,
                             !.pc = IF tasks[t].day_num + 1 < NumDays
                                    THEN "ai" ELSE "done",
                             !.response = IF tasks[t].day_num + 1 < NumDays THEN @
                                          ELSE WorkoutResponse(TRUE, plan, None)])

\* The number of the search awaited at a position, within its day.
SearchNumber(here) ==
    CASE here = "search_warm_up" -> 1
      [] here = "search_main" -> 2
      [] here = "search_cool_down" -> 3

\* Request t is resumed from await self._search_tavily_video(...) at `here`.
SearchTask(t, here, next) ==
    /\ mode = "concurrent" /\ tasks[t].pc = here
    /\ \E r \in { SearchTavilyVideo(tavily_api_key,
                       tasks[t].script.envs[tasks[t].day_num + 1][SearchNumber(here)]) } :
       \E vids \in { Append(tasks[t].day_videos, r.result) } :
          IF r.raised THEN Resume(t, Failed(tasks[t], << "search error" >>))
          ELSE IF next = "parse" THEN FinishDayTask(t, vids)
          ELSE Resume(t, [tasks[t] EXCEPT !.day_videos = vids, !.pc = next])
    /\ UNCHANGED << base_structures, mode, content, parsed, profile, tavily_api_key,
                    pc, day_num, workout_content, day_videos, daily_workouts,
                    response, ai_calls, search_calls, env, found, workout_structure,
                    calls >>

SearchWarmUpTask(t) == SearchTask(t, "search_warm_up", "search_main")

SearchMainTask(t) == SearchTask(t, "search_main", "search_cool_down")

SearchCoolDownTask(t) == SearchTask(t, "search_cool_down", "parse")

NextConcurrent ==
    \E t \in Tasks :
        \/ StartTask(t)
        \/ GetAiResponseTask(t)
        \/ SearchWarmUpTask(t)
        \/ SearchMainTask(t)
        \/ SearchCoolDownTask(t)

SpecConcurrent == InitConcurrent /\ [][NextConcurrent]_vars

(***************************************************************************)
(* Properties of plan requests (Spec)                                      *)
(***************************************************************************)

KnownGoals == { "build_muscle", "lose_weight", "eat_healthier" }

SegmentNames == { "warm_up", "main_routine", "cool_down" }

\* The text of the exception a request with this profile dies of before its
\* first completion, when its goal is unknown.
StructureError(p) ==
    IF p.eating_style \in { "vegan", "vegetarian" } \/ p.caffeine_consumption = "none"
    THEN TypeErrorAssign
    ELSE TypeErrorSubscript

\* What C1 says of each state of a plan request.
C1_Envelope ==
    mode = "plan" =>
        /\ pc # "raised"
        /\ (pc = "done" /\ ~response.success) =>
              /\ response.workout_plan = << >>
              /\ response.error # None
              /\ response.error =
                    IF profile.primary_goal \in KnownGoals
                    THEN OpenAIError
                    ELSE StructureError(profile)
        /\ (pc = "done" /\ response.success) => response.error = None

\* C1: generate_workout_plan never lets an exception out.  Whatever the
\* profile and whatever the completion and the searches do, the call is never
\* left by an exception, it ends by returning a response, and a response that
\* reports failure has success = false, an empty workout_plan and the text of
\* the exception as error (the TypeError of the unknown goal, or the error of
\* the completion).
C1_NeverPropagates == [](C1_Envelope) /\ <>(pc = "done")

\* C1 happens: the completion of the third day raises and the call returns
\* the failure envelope.
C1_Witness ==
    /\ pc = "done"
    /\ ~response.success
    /\ response.error = OpenAIError
    /\ Len(daily_workouts) = 2
    /\ ai_calls = 3

\* C2: with a known goal and three completions that return, the response has
\* success = true and exactly 3 DailyWorkout entries, each with the three
\* segments warm_up, main_routine and cool_down, none of which has an empty
\* exercise list, whatever the text was.
C2_ThreeDaysThreeSegments ==
    (mode = "plan" /\ pc = "done" /\ profile.primary_goal \in KnownGoals
        /\ response.error # OpenAIError) =>
        /\ response.success
        /\ Len(response.workout_plan) = 3
        /\ ai_calls = 3
        /\ \A i \in 1..Len(response.workout_plan) :
              /\ SegmentNames \subseteq DOMAIN response.workout_plan[i]
              /\ DOMAIN response.workout_plan[i] = SegmentNames \cup { "day", "focus" }
              /\ response.workout_plan[i].day = "Day " \o ToString(i)
              /\ \A s \in SegmentNames :
                    response.workout_plan[i][s].exercises # << >>

\* C2 happens: a plan of three days, one built from a completion that
\* returned no text (placeholders only), one from a text with a parsed
\* main-routine line and no cool-down section.
C2_Witness ==
    /\ pc = "done"
    /\ response.success
    /\ \E i, j \in 1..Len(response.workout_plan) :
          /\ response.workout_plan[i].main_routine.exercises
                = << Placeholder("main_routine") >>
          /\ response.workout_plan[j].main_routine.exercises[1].sets = 4
          /\ response.workout_plan[j].cool_down.exercises
                = << Placeholder("cool_down") >>

\* C3: a completion that raises on any day ends the request at once with the
\* failure envelope, whose plan is empty even when earlier days were built,
\* and once the call has returned no completion and no search is issued.
C3_CompletionFailureAborts ==
    [][ /\ (mode = "plan" /\ pc = "ai" /\ pc' # "search_warm_up") =>
              /\ pc' = "done"
              /\ response' = WorkoutResponse(FALSE, << >>, OpenAIError)
              /\ search_calls' = search_calls
              /\ ai_calls' = day_num + 1
        /\ (mode = "plan" /\ pc = "done") =>
              /\ ai_calls' = ai_calls
              /\ search_calls' = search_calls ]_vars

\* C3 happens: the completion of the second day raised after the first day
\* was built, and the plan returned is empty.
C3_Witness ==
    /\ pc = "done"
    /\ response = WorkoutResponse(FALSE, << >>, OpenAIError)
    /\ Len(daily_workouts) = 1
    /\ ai_calls = 2
    /\ search_calls = 3

\* C4: a goal outside the three known ones is an error for every eating
\* style and caffeine value: the request returns the failure envelope, builds
\* no DailyWorkout, and issues no completion and no search.
C4_UnknownGoalFails ==
    (mode = "plan" /\ profile.primary_goal \notin KnownGoals /\ pc # "start") =>
        /\ pc = "done"
        /\ response = WorkoutResponse(FALSE, << >>, StructureError(profile))
        /\ daily_workouts = << >>
        /\ ai_calls = 0
        /\ search_calls = 0

\* C4 happens: the unknown goal with neither adjustment, which fails when the
\* focus of the first day is read.
C4_Witness ==
    /\ pc = "done"
    /\ profile.primary_goal \notin KnownGoals
    /\ profile.eating_style = "omnivore"
    /\ profile.caffeine_consumption = "daily"
    /\ response.error = TypeErrorSubscript

\* The last direct request of the search just made raised or was answered
\* with a status other than 200.
FallbackFailed ==
    /\ found.requests # << >>
    /\ LET last == env.script[Len(found.requests)]
       IN  last.raises \/ last.status_code # 200

\* The url recorded for the search just made.
RecordedVideo ==
    IF day_videos # << >>
    THEN day_videos[Len(day_videos)]
    ELSE daily_workouts[Len(daily_workouts)].cool_down.video_url

\* C5: a search that fails is no error of the request.  The search never
\* raises; when the client library raises and the direct request raises or
\* ends on a status other than 200 it returns None; the url recorded for the
\* segment is what the search returned; and a request that has searched fails
\* only of a completion.
C5_SearchFailureIsNoError ==
    (mode = "plan" /\ search_calls > 0) =>
        /\ ~found.raised
        /\ pc # "raised"
        /\ (env.primary.raises /\ FallbackFailed) => found.result = None
        /\ RecordedVideo = found.result
        /\ (pc = "done" /\ ~response.success) => response.error = OpenAIError

\* C5 happens: a successful plan in which the last search failed (client
\* library raised, direct request raised after a 401) and its segment has no
\* video, while another segment has one.
C5_Witness ==
    /\ pc = "done"
    /\ response.success
    /\ env.primary.raises
    /\ Len(found.requests) = 2
    /\ env.script[2].raises
    /\ response.workout_plan[3].cool_down.video_url = None
    /\ response.workout_plan[1].warm_up.video_url = Yt1

\* C14: in every success response the entries are Day 1, Day 2, Day 3 in
\* this order, entry i has the focus splits[(i-1) mod number of splits] of the
\* structure of the goal, the three focuses differ, and for build_muscle they
\* are "Upper Body Push", "Lower Body", "Upper Body Pull".
C14_FocusCyclesThroughSplits ==
    (mode = "plan" /\ pc = "done" /\ response.success) =>
        LET plan == response.workout_plan
            splits == BaseStructures[profile.primary_goal].splits
        IN  /\ [i \in 1..Len(plan) |-> plan[i].day] = << "Day 1", "Day 2", "Day 3" >>
            /\ \A i \in 1..Len(plan) :
                  plan[i].focus = splits[((i - 1) % Len(splits)) + 1]
            /\ \A i, j \in 1..Len(plan) : i # j => plan[i].focus # plan[j].focus
            /\ profile.primary_goal = "build_muscle" =>
                  [i \in 1..Len(plan) |-> plan[i].focus]
                      = << "Upper Body Push", "Lower Body", "Upper Body Pull" >>

\* C14 happens: the plan of a vegan build_muscle profile without caffeine.
C14_Witness ==
    /\ pc = "done"
    /\ response.success
    /\ profile = [ primary_goal |-> "build_muscle", eating_style |-> "vegan",
                   caffeine_consumption |-> "none" ]
    /\ response.workout_plan[3].focus = "Upper Body Pull"

\* The calls of day d in the order of the code.
CallsOfDay(d) ==
    << [ kind |-> "completion", day |-> d, query |-> "" ],
       [ kind |-> "search", day |-> d, query |-> "warm up exercises" ],
       [ kind |-> "search", day |-> d, query |-> "workout" ],
       [ kind |-> "search", day |-> d, query |-> "cool down stretches" ] >>

\* C17: the calls of a request are awaited one at a time: the completion of
\* a day, then its searches for warm-up, main routine and cool-down, then the
\* calls of the next day; each step awaits at most one call; a success
\* response has awaited exactly 3 completions and 9 searches.
C17_CallsSequential ==
    mode = "plan" =>
        /\ Len(calls) <= 12
        /\ calls = SubSeq(CallsOfDay(1) \o CallsOfDay(2) \o CallsOfDay(3), 1, Len(calls))
        /\ Len(calls) = ai_calls + search_calls
        /\ ai_calls = Cardinality({ i \in 1..Len(calls) : calls[i].kind = "completion" })
        /\ (pc = "done" /\ response.success) =>
              /\ ai_calls = 3
              /\ search_calls = 9
              /\ Len(calls) = 12

\* C17 happens: a success response after the twelve calls.
C17_Witness ==
    /\ pc = "done"
    /\ response.success
    /\ Len(calls) = 12
    /\ calls[12] = [ kind |-> "search", day |-> 3, query |-> "cool down stretches" ]
    /\ calls[5].kind = "completion"

(***************************************************************************)
(* Properties of the structure (SpecStructure)                             *)
(***************************************************************************)

\* C15: for a known goal the structure has a nutrition note exactly when the
\* eating style is vegan or vegetarian and an extended warm-up duration
\* exactly when the caffeine consumption is none, each whatever the other
\* is, and its splits, intensity and rest are those of the goal.
C15_AdjustmentsIndependent ==
    (mode = "structure" /\ pc # "start" /\ profile.primary_goal \in KnownGoals) =>
        LET st == workout_structure.structure
            goal == BaseStructures[profile.primary_goal]
        IN  /\ pc = "done"
            /\ "nutrition_note" \in DOMAIN st
                  <=> profile.eating_style \in { "vegan", "vegetarian" }
            /\ "warm_up_duration" \in DOMAIN st
                  <=> profile.caffeine_consumption = "none"
            /\ DOMAIN st \subseteq { "splits", "intensity", "rest", "nutrition_note",
                                      "warm_up_duration" }
            /\ st.splits = goal.splits
            /\ st.intensity = goal.intensity
            /\ st.rest = goal.rest

\* C15 happens: a vegetarian with daily caffeine gets the note and not the
\* longer warm-up.
C15_Witness ==
    /\ mode = "structure" /\ pc = "done"
    /\ profile.primary_goal = "lose_weight"
    /\ profile.eating_style = "vegetarian"
    /\ profile.caffeine_consumption = "daily"
    /\ workout_structure.structure.nutrition_note = "Include pre-workout protein sources"
    /\ "warm_up_duration" \notin DOMAIN workout_structure.structure

(***************************************************************************)
(* Properties of the parser (SpecParse)                                    *)
(***************************************************************************)

\* C6: _parse_workout_response never raises, and for every text returns
\* exactly the sections warm_up, main_routine and cool_down, each with at
\* least one Exercise.
C6_ParserTotal ==
    mode = "parse" =>
        /\ pc # "raised"
        /\ pc = "done" =>
              /\ ~parsed.raised
              /\ DOMAIN parsed.segments = SegmentNames
              /\ \A s \in SegmentNames : Len(parsed.segments[s]) >= 1

\* C6 happens: a text whose only bullet line of a section is malformed, so
\* that the section is filled with the placeholder.
C6_Witness ==
    /\ mode = "parse" /\ pc = "done"
    /\ \E i \in 1..Len(parsed.log) : parsed.log[i].kind = "dropped"
    /\ parsed.segments.main_routine = << Placeholder("main_routine") >>
    /\ Len(parsed.segments.warm_up) = 1

\* The fields of a bullet line after the name that hold "sets:".
SetsFields(line) ==
    LET parts == PartsOf(line)
        IsSets(part) == Contains(Lower(part), << "sets", ":" >>)
    IN  SelectSeq(SubSeq(parts, 2, Len(parts)), IsSets)

\* The text after "Sets:" of the (last) sets field.
SetsText(line) ==
    LET fields == SetsFields(line)
        pieces == Split(fields[Len(fields)], ":")
    IN  Strip(pieces[Len(pieces)])

\* A sets field that is not a number: not a non-empty text of decimal digits.
NonNumericSets(line) ==
    /\ SetsFields(line) # << >>
    /\ \/ SetsText(line) = << >>
       \/ \E i \in 1..Len(SetsText(line)) : SetsText(line)[i] \notin { "0", "3", "4" }

\* A sets field without any digit character.
NoDigitSets(line) ==
    /\ SetsFields(line) # << >>
    /\ \A i \in 1..Len(SetsText(line)) : SetsText(line)[i] \notin { "0", "3", "4", "sup2" }

\* A sets field whose digit characters int() rejects.
RejectedSets(line) ==
    /\ SetsFields(line) # << >>
    /\ \E i \in 1..Len(SetsText(line)) : SetsText(line)[i] = "sup2"

\* The bullet lines met inside the main-routine section.
MainBullets ==
    { i \in 1..Len(parsed.log) :
        /\ parsed.log[i].section = "main_routine"
        /\ parsed.log[i].kind \in { "dropped", "exercise" } }

\* The exercises of the log entries of the main-routine section, in order.
RECURSIVE MainExercises(_)
MainExercises(n) ==
    IF n = 0 THEN << >>
    ELSE IF n \in MainBullets /\ parsed.log[n].kind = "exercise"
    THEN Append(MainExercises(n - 1), parsed.log[n].exercise)
    ELSE MainExercises(n - 1)

\* C7 as stated: every main-routine bullet line whose sets field is
\* non-numeric is dropped.
C7_NonNumericSetsDropped ==
    (mode = "parse" /\ pc = "done") =>
        \A i \in MainBullets :
            NonNumericSets(parsed.log[i].line) => parsed.log[i].kind = "dropped"

\* C7 as the code has it: a main-routine bullet line whose sets field has no
\* digit character (`Sets: abc`) is kept, with sets = 3; a line is dropped
\* exactly when the digit characters of its sets field are not a decimal
\* number (a superscript digit); and every line not dropped gives its
\* Exercise to the section, in order.
C7_OnlyRejectedDigitsDropped ==
    (mode = "parse" /\ pc = "done") =>
        /\ \A i \in MainBullets :
              /\ NoDigitSets(parsed.log[i].line) =>
                    /\ parsed.log[i].kind = "exercise"
                    /\ parsed.log[i].exercise.sets = 3
              /\ parsed.log[i].kind = "dropped" <=> RejectedSets(parsed.log[i].line)
        /\ MainExercises(Len(parsed.log)) # << >> =>
              parsed.segments.main_routine = MainExercises(Len(parsed.log))

\* C7 happens: a main-routine section with a `Sets: a` line, kept with
\* sets = 3, next to a well-formed line with sets = 4.
C7_Witness ==
    /\ mode = "parse" /\ pc = "done"
    /\ Len(parsed.segments.main_routine) = 2
    /\ \E i \in MainBullets :
          /\ NoDigitSets(parsed.log[i].line)
          /\ parsed.log[i].exercise.sets = 3
    /\ \E i \in MainBullets : parsed.log[i].exercise.sets = 4

\* The lines of the text, as written.
RawLines == Split(content, "\n")

\* The raw line i starts with a bullet character.
IsBulletLine(i) == RawLines[i] # << >> /\ RawLines[i][1] \in { "-", "*" }

\* The bullet lines between the header of the section and the next header
\* (or the end of the text), in a text of SectionedContents.
BulletLinesOf(section) ==
    LET headers == { j \in 1..Len(RawLines) :
                       \E t \in SegmentNames : RawLines[j] = HeaderLine(t) }
        h == CHOOSE j \in 1..Len(RawLines) : RawLines[j] = HeaderLine(section)
    IN  { i \in (h + 1)..Len(RawLines) :
            /\ IsBulletLine(i)
            /\ \A j \in headers : ~(h < j /\ j < i) }

\* C11: for a text with the warm-up, main and cool-down headers, each
\* followed by bullet lines in the format of the prompt, each section gets as
\* many Exercises as there are bullet lines between its header and the next
\* header (or the end of the text).
C11_CountsMatchBulletLines ==
    (mode = "parse" /\ pc = "done" /\ content \in SectionedContents) =>
        \A t \in SegmentNames :
            Len(parsed.segments[t]) = Cardinality(BulletLinesOf(t))

\* C11 happens: a text whose sections have 1, 2 and 2 bullet lines, one of
\* them with the star bullet.
C11_Witness ==
    /\ mode = "parse" /\ pc = "done"
    /\ content \in SectionedContents
    /\ Len(parsed.segments.warm_up) = 1
    /\ Len(parsed.segments.main_routine) = 2
    /\ Len(parsed.segments.cool_down) = 2
    /\ \E i \in 1..Len(RawLines) : RawLines[i] = << "*", " ", "A" >>

\* The text holds one of the six header phrases, in any case.
HasHeaderPhrase ==
    \E i \in 1..(Len(content) - 1) :
        /\ LowerTok(content[i]) \in { "warm-up", "warmup", "main routine",
                                      "main workout", "cool-down", "cooldown" }
        /\ content[i + 1] = ":"

\* The placeholder of a section, spelled out.
BasicExercise(name) ==
    [ name |-> << name >>, sets |-> 1, reps |-> << "As needed" >>,
      rest |-> << "None" >>, instructions |-> << "Perform at a comfortable pace" >> ]

\* C12: the empty text and every text without a header phrase, with or
\* without bullet lines, parse to exactly one Exercise per section: "Basic
\* Warm Up", "Basic Main Routine" and "Basic Cool Down", each with sets 1,
\* reps "As needed", rest "None", instructions "Perform at a comfortable pace".
C12_NoHeaderGivesPlaceholders ==
    (mode = "parse" /\ pc = "done" /\ content # None /\ ~HasHeaderPhrase) =>
        /\ parsed.segments.warm_up = << BasicExercise("Basic Warm Up") >>
        /\ parsed.segments.main_routine = << BasicExercise("Basic Main Routine") >>
        /\ parsed.segments.cool_down = << BasicExercise("Basic Cool Down") >>

\* C12 happens: a text of bullet lines without any header.
C12_Witness ==
    /\ mode = "parse" /\ pc = "done"
    /\ content # None /\ ~HasHeaderPhrase
    /\ Len(parsed.log) = 3
    /\ \A i \in 1..Len(parsed.log) : parsed.log[i].kind = "no_section"
    /\ parsed.segments.main_routine = << BasicExercise("Basic Main Routine") >>

\* The fields of a bullet line as written: the text between the bars, without
\* the bullet and the surrounding blanks.
FieldsOf(line) ==
    LET raw == Split(SubSeq(line, 2, Len(line)), "|")
    IN  [i \in 1..Len(raw) |-> Strip(raw[i])]

\* The field starts with the marker ("Sets", "Reps", "Rest") and a colon.
Marked(field, marker) ==
    Len(field) >= 2 /\ field[1] = marker /\ field[2] = ":"

\* The text of a marked field after its first colon.
ValueOf(field) == Strip(SubSeq(field, 3, Len(field)))

\* The fields after the name that carry the marker, and those that carry none.
FieldsMarked(line, marker) ==
    LET IsMarked(field) == Marked(field, marker)
    IN  SelectSeq(Tail(FieldsOf(line)), IsMarked)

FieldsUnmarked(line) ==
    LET IsPlain(field) == \A marker \in { "Sets", "Reps", "Rest" } : ~Marked(field, marker)
    IN  SelectSeq(Tail(FieldsOf(line)), IsPlain)

\* The value of the marker on the line, or the default when it has none.
ValueOrDefault(line, marker, default) ==
    IF FieldsMarked(line, marker) = << >> THEN default
    ELSE ValueOf(FieldsMarked(line, marker)[Len(FieldsMarked(line, marker))])

\* A whole number written in decimal digits.
IsWholeNumber(text) ==
    text # << >> /\ \A i \in 1..Len(text) : text[i] \in { "0", "3", "4" }

\* The Exercises of the main-routine section whose line starts with a dash
\* and has a whole number as sets, or no sets field.
PlainMainBullets ==
    { i \in MainBullets :
        /\ parsed.log[i].line[1] = "-"
        /\ IsWholeNumber(ValueOrDefault(parsed.log[i].line, "Sets", << "3" >>)) }

\* C13 as stated: a main-routine line `- N | Sets: s | Reps: r | Rest: t |
\* text` gives name N, sets = s as an integer, reps = r, rest = t and the
\* lower-cased text as instructions; a missing sets, reps or rest field takes
\* 3, "10-12" or "60s"; of several unmarked fields the last is the
\* instructions.
C13_FieldsExtracted ==
    (mode = "parse" /\ pc = "done") =>
        \A i \in PlainMainBullets :
            LET line == parsed.log[i].line
                e == parsed.log[i].exercise
                plain == FieldsUnmarked(line)
            IN  /\ parsed.log[i].kind = "exercise"
                /\ e.name = FieldsOf(line)[1]
                /\ e.sets = IntValue(ValueOrDefault(line, "Sets", << "3" >>))
                /\ e.reps = ValueOrDefault(line, "Reps", << "10-12" >>)
                /\ e.rest = ValueOrDefault(line, "Rest", << "60s" >>)
                /\ plain # << >> => e.instructions = Lower(plain[Len(plain)])

\* The line holds one of the phrases, followed by a colon.
HasPhrase(line, phrases) ==
    \E i \in 1..(Len(line) - 1) : LowerTok(line[i]) \in phrases /\ line[i + 1] = ":"

\* The section whose header phrase the line holds, "None" when it holds none.
PhraseSection(line) ==
    IF HasPhrase(line, { "warm-up", "warmup" }) THEN "warm_up"
    ELSE IF HasPhrase(line, { "main routine", "main workout" }) THEN "main_routine"
    ELSE IF HasPhrase(line, { "cool-down", "cooldown" }) THEN "cool_down"
    ELSE "None"

\* The section named by the most recent header line before line i of the log.
CursorAt(i) ==
    LET headers == { j \in 1..(i - 1) : PhraseSection(parsed.log[j].line) # "None" }
    IN  IF headers = { } THEN "None"
        ELSE PhraseSection(parsed.log[CHOOSE j \in headers :
                                         \A k \in headers : k <= j].line)

\* The Exercises produced by the first n lines under the cursor `section`.
RECURSIVE ExercisesUnder(_, _)
ExercisesUnder(section, n) ==
    IF n = 0 THEN << >>
    ELSE IF parsed.log[n].kind = "exercise" /\ CursorAt(n) = section
    THEN Append(ExercisesUnder(section, n - 1), parsed.log[n].exercise)
    ELSE ExercisesUnder(section, n - 1)

\* C16: the cursor is unset until the first header line and changes on
\* header lines only.  A bullet line before the first header is dropped; a
\* line with a header phrase is consumed as a header and gives no Exercise;
\* every Exercise of a bullet line is appended, in input order, to the
\* section named by the most recent header line before it.
C16_CursorFollowsHeaders ==
    (mode = "parse" /\ pc = "done" /\ content # None) =>
        /\ \A i \in 1..Len(parsed.log) :
              LET entry == parsed.log[i]
              IN  /\ entry.section = CursorAt(i)
                  /\ PhraseSection(entry.line) # "None" <=> entry.kind = "header"
                  /\ (entry.line[1] \in { "-", "*" } /\ PhraseSection(entry.line) = "None"
                        /\ CursorAt(i) = "None") => entry.kind = "no_section"
                  /\ entry.kind \in { "exercise", "dropped" } => CursorAt(i) # "None"
        /\ \A t \in SegmentNames :
              IF ExercisesUnder(t, Len(parsed.log)) # << >>
              THEN parsed.segments[t] = ExercisesUnder(t, Len(parsed.log))
              ELSE parsed.segments[t] = << BasicExercise("Basic " \o SectionTitle(t)) >>

\* C16 happens: a bullet line before the first header is lost, the one after
\* the header goes to its section, and a bullet line with a header phrase
\* moves the cursor without giving an Exercise.
C16_Witness ==
    /\ mode = "parse" /\ pc = "done"
    /\ Len(parsed.log) = 3
    /\ parsed.log[1].kind = "no_section"
    /\ parsed.log[2].kind = "header"
    /\ parsed.log[2].line[1] = "-"
    /\ parsed.log[3].kind = "exercise"
    /\ parsed.segments.warm_up = << parsed.log[3].exercise >>

\* C18 as stated: a bullet line in a section whose first field is empty
\* after the bullet and the blanks are stripped gives an Exercise named
\* "Unnamed Exercise".
C18_EmptyNameDefault ==
    (mode = "parse" /\ pc = "done" /\ content # None) =>
        \A i \in 1..Len(parsed.log) :
            (parsed.log[i].kind = "exercise" /\ FieldsOf(parsed.log[i].line)[1] = << >>) =>
                parsed.log[i].exercise.name = << "Unnamed Exercise" >>

\* C19 as stated: the reps and the rest of a main-routine Exercise are the
\* whole text after the first colon of the field (as the parser reads the
\* field, in lower case), so a value with a colon of its own is kept in full.
C19_ValueAfterFirstColon ==
    (mode = "parse" /\ pc = "done" /\ content # None) =>
        \A i \in MainBullets :
            LET line == parsed.log[i].line
                e == parsed.log[i].exercise
            IN  (parsed.log[i].kind = "exercise" /\ line[1] = "-") =>
                    /\ FieldsMarked(line, "Reps") # << >> =>
                          e.reps = Lower(ValueOrDefault(line, "Reps", << >>))
                    /\ FieldsMarked(line, "Rest") # << >> =>
                          e.rest = Lower(ValueOrDefault(line, "Rest", << >>))

\* C20 as stated: every Exercise the parser returns has sets of at least 1,
\* for every text: 1 outside the main routine and for placeholders, the
\* digits after "sets:" or 3 in the main routine.
C20_SetsPositive ==
    (mode = "parse" /\ pc = "done") =>
        \A t \in SegmentNames :
            \A i \in 1..Len(parsed.segments[t]) :
                /\ parsed.segments[t][i].sets >= 1
                /\ t # "main_routine" => parsed.segments[t][i].sets = 1

(***************************************************************************)
(* Properties of the search (SpecSearch)                                   *)
(***************************************************************************)

\* C8 as stated: with a credential shorter than 11 characters the search
\* returns None and makes no network call, client library or direct request.
C8_ShortKeyNoCalls ==
    (mode = "search" /\ pc = "done" /\ Len(tavily_api_key) < 11) =>
        /\ found.result = None
        /\ found.client_calls = 0
        /\ found.requests = << >>

\* The authentication scheme a direct request carries.
SchemeOf(request) ==
    IF request.x_api_key # << >> THEN "x_api_key"
    ELSE IF request.authorization = << "Bearer", " " >> \o tavily_api_key THEN "bearer"
    ELSE IF request.authorization # << >> THEN "stripped_bearer"
    ELSE "api_key"

\* The order of the schemes for the credential in use.
SchemeOrder ==
    IF Len(tavily_api_key) >= 5 /\ SubSeq(tavily_api_key, 1, 5) = << "t", "v", "l", "y", "-" >>
    THEN << "bearer", "api_key", "stripped_bearer", "x_api_key" >>
    ELSE << "bearer", "api_key", "x_api_key" >>

\* The first url with the target domain in a list of results, else None.
FirstMatch(results) ==
    IF \E i \in 1..Len(results) : Contains(results[i], << "youtube.com" >>)
    THEN results[CHOOSE i \in 1..Len(results) :
                    /\ Contains(results[i], << "youtube.com" >>)
                    /\ \A j \in 1..(i - 1) : ~Contains(results[j], << "youtube.com" >>)]
    ELSE None

\* C9: the direct requests follow the order bearer, api_key in the body,
\* bearer without the prefix (only for a credential with the prefix),
\* X-Api-Key; each request after the first follows a 401; the chain stops at
\* the first answer that is no 401 and after the last scheme, so at most 4
\* requests; the result is the first match of the last answer when its status
\* is 200 and None otherwise (so None when every answer is 401).
C9_FallbackChain ==
    (mode = "search" /\ pc = "done" /\ found.requests # << >>) =>
        LET n == Len(found.requests)
            last == env.script[n]
        IN  /\ n <= MaxAttempts
            /\ n <= Len(SchemeOrder)
            /\ \A i \in 1..n : SchemeOf(found.requests[i]) = SchemeOrder[i]
            /\ \A i \in 1..(n - 1) :
                  ~env.script[i].raises /\ env.script[i].status_code = 401
            /\ (~last.raises /\ last.status_code = 401) => n = Len(SchemeOrder)
            /\ found.result =
                  IF ~last.raises /\ last.status_code = 200
                  THEN FirstMatch(last.results)
                  ELSE None

\* C9 happens: the answers 401, 401, 200 with a match after a url of another
\* domain, and the result is the match of the third answer.
C9_Witness ==
    /\ mode = "search" /\ pc = "done"
    /\ env.primary.raises
    /\ Len(found.requests) = 3
    /\ env.script[1].status_code = 401
    /\ env.script[2].status_code = 401
    /\ env.script[3].status_code = 200
    /\ env.script[3].results = Mark(<< Other, Yt2 >>, 3)
    /\ found.result = Append(Yt2, "#response3")

\* C10 as stated: when the client library does not raise, its results alone
\* decide (first match or None) and no direct request is issued.
C10_PrimaryAloneDecides ==
    (mode = "search" /\ pc = "done" /\ Len(tavily_api_key) >= 10
        /\ ~env.primary.raises) =>
        /\ found.result = FirstMatch(env.primary.results)
        /\ found.requests = << >>

\* C10 as the code has it: a match of the client library is the result and no
\* direct request is issued; without a match, whether the client library
\* raised or returned no matching result, the direct request is issued and
\* the result is the one it gives.
C10_FallbackWithoutMatch ==
    (mode = "search" /\ pc = "done" /\ Len(tavily_api_key) >= 10) =>
        /\ found.client_calls = 1
        /\ IF ~env.primary.raises /\ FirstMatch(env.primary.results) # None
           THEN /\ found.result = FirstMatch(env.primary.results)
                /\ found.requests = << >>
           ELSE /\ found.requests # << >>
                /\ LET last == env.script[Len(found.requests)]
                   IN  found.result # None =>
                          /\ ~last.raises
                          /\ found.result = FirstMatch(last.results)

\* C10 happens: the client library returns results of another domain only,
\* and the result comes from the direct request.
C10_Witness ==
    /\ mode = "search" /\ pc = "done"
    /\ ~env.primary.raises
    /\ env.primary.results = << Other >>
    /\ Len(found.requests) = 1
    /\ found.result = Append(Yt1, "#response1")

(***************************************************************************)
(* Properties of concurrent requests (SpecConcurrent)                      *)
(***************************************************************************)

\* _generate_daily_workout for day d (0-based) of a request that is the only
\* one on its planner: its awaits are resumed one after the other.
DayAlone(structure, key, script, d) ==
    LET outcome == script.ai[d + 1]
        searches == [k \in 1..3 |-> SearchTavilyVideo(key, script.envs[d + 1][k])]
        workout_data == ParsedPlanContents[outcome.content]
    IN  IF outcome.raises
        THEN [ raised |-> TRUE, error |-> outcome.error, workout |-> << >> ]
        ELSE IF \E k \in 1..3 : searches[k].raised
        THEN [ raised |-> TRUE, error |-> << "search error" >>, workout |-> << >> ]
        ELSE IF workout_data.raised
        THEN [ raised |-> TRUE, error |-> << "parse error" >>, workout |-> << >> ]
        ELSE [ raised |-> FALSE, error |-> None,
               workout |-> DailyWorkout(d + 1, Focus(structure, d),
                                        workout_data.segments,
                                        [k \in 1..3 |-> searches[k].result]) ]

\* The loop of generate_workout_plan from day d on, for such a request.
RECURSIVE PlanAlone(_, _, _, _, _)
PlanAlone(structure, key, script, d, plan) ==
    IF d = NumDays THEN WorkoutResponse(TRUE, plan, None)
    ELSE LET day == DayAlone(structure, key, script, d)
         IN  IF day.raised THEN WorkoutResponse(FALSE, << >>, day.error)
             ELSE PlanAlone(structure, key, script, d + 1, Append(plan, day.workout))

\* The response of generate_workout_plan to a request that is the only one on
\* its planner and gets the answers of `script`.
ResponseAlone(p, key, script) ==
    LET s == CreateWorkoutStructure(p)
    IN  IF s.raised THEN WorkoutResponse(FALSE, << >>, s.error)
        ELSE IF s.is_none THEN WorkoutResponse(FALSE, << >>, TypeErrorSubscript)
        ELSE PlanAlone(s.structure, key, script, 0, << >>)

\* ResponseAlone, tabulated over the inputs of concurrent requests.
ResponsesAlone ==
    [ p \in ConcurrentProfiles, key \in ConcurrentKeys, script \in ConcurrentScripts |->
        ResponseAlone(p, key, script) ]

\* C21: two generate_workout_plan calls on one planner, resumed in any order
\* at their awaits, share no mutable state: the structure each derives is the
\* one _create_workout_structure gives for its own profile (no note or longer
\* warm-up of the other request in it), and the response each returns is the
\* one it returns when it runs by itself with the same collaborator answers,
\* which is also what the two return when run one after the other.
C21_RequestsIsolated ==
    mode = "concurrent" =>
        \A t \in Tasks :
            /\ tasks[t].pc # "start" =>
                   tasks[t].workout_structure = CreateWorkoutStructure(tasks[t].profile)
            /\ tasks[t].pc = "done" =>
                   tasks[t].response =
                       ResponsesAlone[tasks[t].profile, tavily_api_key, tasks[t].script]
            /\ tasks[t].pc # "done" => tasks[t].response = NoResponse

\* Both requests have the same goal and have returned a plan, each ran while
\* the other was suspended, the first one got the note and the longer warm-up,
\* and the second one, whose structure was derived last, got neither.
C21_Witness ==
    /\ mode = "concurrent"
    /\ \A t \in Tasks :
          tasks[t].pc = "done" /\ tasks[t].overlapped /\ tasks[t].response.success
    /\ tasks["first"].profile.primary_goal = tasks["second"].profile.primary_goal
    /\ { "nutrition_note", "warm_up_duration" }
          \subseteq DOMAIN tasks["first"].workout_structure.structure
    /\ DOMAIN tasks["second"].workout_structure.structure
          = { "splits", "intensity", "rest" }
    /\ base_structures[tasks["second"].profile.primary_goal]
          = tasks["second"].workout_structure.structure
    /\ tasks["first"].response # tasks["second"].response
====
